---- MODULE Spec2Model ----
(***************************************************************************)
(* Model of the lyxdoc document object model: lyxclass.py (LyxObject,      *)
(* LyxContainer, CloseTag, LyxLabel) and lyxdoc.py (LyxPart, LyxDocument). *)
(*                                                                         *)
(* A Python str is a sequence of one-character strings.  An optional       *)
(* value (Python None or a value) is a sequence of length 0 or 1.          *)
(* Every Python object is a record with a "kind" field.                    *)
(***************************************************************************)
EXTENDS Integers, Sequences, FiniteSets, TLC

VARIABLES input_string, origin, lines, i, lyx_content, parents_ref,
          warnings, pc, content, mutated, call, ret

vars == <<input_string, origin, lines, i, lyx_content, parents_ref,
          warnings, pc, content, mutated, call, ret>>

----------------------------------------------------------------------------
(* Characters and Python str primitives                                    *)

BS == "\\"
SP == " "
NL == "\n"

IsSpace(c) == c \in {" ", "\t", "\n", "\r"}

Last(s) == s[Len(s)]

Front(s) == SubSeq(s, 1, Len(s) - 1)

\* s[n:] for 0 <= n
Drop(s, n) == SubSeq(s, n + 1, Len(s))

\* s.startswith(p)
StartsWith(s, p) == Len(p) <= Len(s) /\ SubSeq(s, 1, Len(p)) = p

RECURSIVE LStrip(_)
LStrip(s) == IF s # <<>> /\ IsSpace(Head(s)) THEN LStrip(Tail(s)) ELSE s

RECURSIVE RStrip(_)
RStrip(s) == IF s # <<>> /\ IsSpace(Last(s)) THEN RStrip(Front(s)) ELSE s

\* s.strip()
Strip(s) == RStrip(LStrip(s))

\* index of the first occurrence of character c in s at or after position k, 0 if none
RECURSIVE FindChar(_, _, _)
FindChar(s, c, k) ==
    IF k > Len(s) THEN 0
    ELSE IF s[k] = c THEN k
    ELSE FindChar(s, c, k + 1)

\* s.split(c) cut down to its first two pieces: a split at every c instead of the first
Split1_every(s, c) ==
    LET k == FindChar(s, c, 1)
    IN  IF k = 0 THEN <<s>>
        ELSE LET rest == SubSeq(s, k + 1, Len(s))
                 k2 == FindChar(rest, c, 1)
             IN  <<SubSeq(s, 1, k - 1), IF k2 = 0 THEN rest ELSE SubSeq(rest, 1, k2 - 1)>>

\* s.split(c, 1): at most one split, at the first c
Split1(s, c) ==
    LET k == FindChar(s, c, 1)
    IN  IF k = 0 THEN <<s>>
        ELSE <<SubSeq(s, 1, k - 1), SubSeq(s, k + 1, Len(s))>>

\* s.split(c): split at every c; always at least one piece
RECURSIVE Split(_, _)
Split(s, c) ==
    LET k == FindChar(s, c, 1)
    IN  IF k = 0 THEN <<s>>
        ELSE <<SubSeq(s, 1, k - 1)>> \o Split(SubSeq(s, k + 1, Len(s)), c)

\* sep.join(parts)
RECURSIVE Join(_, _)
Join(parts, sep) ==
    IF parts = <<>> THEN <<>>
    ELSE IF Len(parts) = 1 THEN parts[1]
    ELSE parts[1] \o sep \o Join(Tail(parts), sep)

\* s.replace(old, '') : remove every non-overlapping occurrence, left to right
RECURSIVE ReplaceEmpty(_, _)
ReplaceEmpty(s, old) ==
    IF s = <<>> THEN <<>>
    ELSE IF StartsWith(s, old) THEN ReplaceEmpty(Drop(s, Len(old)), old)
    ELSE <<Head(s)>> \o ReplaceEmpty(Tail(s), old)

\* the literals '\\begin', '\\end', '\\begin_' of lyxdoc.py (one backslash each)
kBegin == <<BS, "b", "e", "g", "i", "n">>
kEnd == <<BS, "e", "n", "d">>
kBeginU == kBegin \o <<"_">>

\* the literals '\\\\', '\\\\begin_', '\\\\end_' of lyxclass.py (two backslashes each)
kObjPrefix == <<BS, BS>>
kContBegin == <<BS, BS, "b", "e", "g", "i", "n", "_">>
kContEnd == <<BS, BS, "e", "n", "d", "_">>

----------------------------------------------------------------------------
(* Objects                                                                 *)

NoneVal == [kind |-> "none"]
StrVal(s) == [kind |-> "str", s |-> s]
IntVal(n) == [kind |-> "int", v |-> n]
\* the list object bound to the local name lyx_content in LyxDocument.__init__
LyxContentRef == [kind |-> "list"]

LyxObject(tag, attribute) == [kind |-> "obj", tag |-> tag, attribute |-> attribute]

LyxContainer(tag, attribute, cont) ==
    [kind |-> "cont", tag |-> tag, attribute |-> attribute, content |-> cont]

CloseTag(tag) == [kind |-> "close", tag |-> tag]

LyxPart(header, cont) == [kind |-> "part", header |-> header, content |-> cont]

Ok(v) == [kind |-> "ok", value |-> v]
Raised(exc) == [kind |-> "raised", exc |-> exc]

----------------------------------------------------------------------------
(* Rendering: LyxObject.tostring, LyxContainer.tostring, CloseTag.tostring, *)
(* LyxPart.tostring and Python's str() of the other values                  *)

kNone == <<"N", "o", "n", "e">>

\* ' ' + self.attribute if self.attribute is not None else ''
AttrSuffix(attribute) == IF attribute # <<>> THEN <<SP>> \o attribute[1] ELSE <<>>

LyxObject_tostring(self) == kObjPrefix \o self.tag \o AttrSuffix(self.attribute)

CloseTag_tostring(self) == kContEnd \o self.tag

RECURSIVE Str(_)
RECURSIVE StrAll(_)
\* [str(x) for x in items]
StrAll(items) == [k \in 1..Len(items) |-> Str(items[k])]

LyxContainer_tostring(self) ==
    Join(<<kContBegin \o self.tag \o AttrSuffix(self.attribute)>>
            \o StrAll(self.content)
            \o <<kContEnd \o self.tag>>, <<NL>>)

LyxPart_tostring(self) == Join(<<Str(self.header)>> \o StrAll(self.content), <<NL>>)

\* str(x)
Str(x) ==
    CASE x.kind = "str" -> x.s
      [] x.kind = "obj" -> LyxObject_tostring(x)
      [] x.kind = "cont" -> LyxContainer_tostring(x)
      [] x.kind = "close" -> CloseTag_tostring(x)
      [] x.kind = "part" -> LyxPart_tostring(x)
      [] x.kind = "none" -> kNone

\* LyxDocument.tostring
LyxDocument_tostring(doc_content) == Join(StrAll(doc_content), <<NL>>)

----------------------------------------------------------------------------
(* LyxDocument._parse_line                                                 *)

\* _parse_line with a final branch that returns a CloseTag for a '\end' line
_parse_line_closing(line) ==
    IF Len(line) = 0 THEN StrVal(line)
    ELSE IF line[1] # BS THEN StrVal(line)
    ELSE IF ~StartsWith(Strip(line), kBegin) /\ ~StartsWith(Strip(line), kEnd)
    THEN LET objs == Split1(Strip(line), SP)
         IN  IF Len(objs) > 1
             THEN LyxObject(Drop(objs[1], 1), <<objs[2]>>)
             ELSE LyxObject(Drop(objs[1], 1), <<>>)
    ELSE IF StartsWith(Strip(line), kBegin)
    THEN LET objs == Split1(Strip(line), SP)
         IN  IF Len(objs) > 1
             THEN LyxContainer(ReplaceEmpty(objs[1], kBeginU), <<objs[2]>>, <<>>)
             ELSE LyxContainer(ReplaceEmpty(objs[1], kBeginU), <<>>, <<>>)
    ELSE CloseTag(ReplaceEmpty(Strip(line), kEnd \o <<"_">>))

_parse_line(line) ==
    IF Len(line) = 0 THEN StrVal(line)
    ELSE IF line[1] # BS THEN StrVal(line)
    ELSE IF ~StartsWith(Strip(line), kBegin) /\ ~StartsWith(Strip(line), kEnd)
    THEN LET objs == Split1(Strip(line), SP)
         IN  IF Len(objs) > 1
             THEN LyxObject(Drop(objs[1], 1), <<objs[2]>>)
             ELSE LyxObject(Drop(objs[1], 1), <<>>)
    ELSE IF StartsWith(Strip(line), kBegin)
    THEN LET objs == Split1(Strip(line), SP)
         IN  IF Len(objs) > 1
             THEN LyxContainer(ReplaceEmpty(objs[1], kBeginU), <<objs[2]>>, <<>>)
             ELSE LyxContainer(ReplaceEmpty(objs[1], kBeginU), <<>>, <<>>)
    ELSE NoneVal   \* no branch is taken for a '\end' line: the function returns None

----------------------------------------------------------------------------
(* Inputs                                                                  *)

MaxLines == 3

kBody == <<"b", "o", "d", "y">>
kLayout == <<"l", "a", "y", "o", "u", "t">>
kSection == <<"S", "e", "c", "t", "i", "o", "n">>
kSubsection == <<"S", "u", "b", "s", "e", "c", "t", "i", "o", "n">>
kSize == <<"s", "i", "z", "e">>
kLarge == <<"l", "a", "r", "g", "e">>

InputLines ==
    { kBeginU \o kBody,                              \* \begin_body
      kEnd \o <<"_">> \o kBody,                      \* \end_body
      kBeginU \o kLayout \o <<SP>> \o kSection,      \* \begin_layout Section
      kEnd \o <<"_">> \o kLayout,                    \* \end_layout
      <<"A">>,                                       \* raw text
      <<BS>>,                                        \* the escape character alone
      <<BS>> \o kSize \o <<SP, SP, "\"">> \o kLarge \o <<"\"", SP>>,   \* \size  "large"<space>
      <<>> }                                         \* empty line

SeqsUpTo(S, n) == UNION { [1..k -> S] : k \in 1..n }

LineTexts == { Join(ls, <<NL>>) : ls \in SeqsUpTo(InputLines, MaxLines) }

\* trees built only from Containers and Nodes
Trees ==
    { LyxObject(kSize, <<>>),
      LyxObject(kSize, <<kLarge>>),
      LyxContainer(kBody, <<>>, <<>>),
      LyxContainer(kLayout, <<kSection>>, <<LyxObject(kSize, <<kLarge>>)>>),
      LyxContainer(kBody, <<>>,
                   <<LyxContainer(kLayout, <<kSection>>, <<>>), LyxObject(kSize, <<>>)>>) }

----------------------------------------------------------------------------
(* LyxDocument.__init__                                                    *)

NoCall == [op |-> "none", arg |-> <<>>]

Init ==
    /\ \/ input_string \in LineTexts /\ origin = <<>>
       \/ \E t \in Trees : origin = <<t>> /\ input_string = Str(t)
    /\ lines = <<>>
    /\ i = 0
    /\ lyx_content = <<>>
    /\ parents_ref = <<>>
    /\ warnings = <<>>
    /\ pc = "start"
    /\ content = <<>>
    /\ mutated = FALSE
    /\ call = NoCall
    /\ ret = NoneVal

\* lines 125-127: split the input and set up the stack of frames
Start ==
    /\ pc = "start"
    /\ lines' = Split(input_string, NL)
    /\ lyx_content' = <<>>
    /\ parents_ref' = << <<LyxContentRef>> >>
    /\ i' = 0
    /\ pc' = "loop"
    /\ call' = [op |-> "__init__", arg |-> <<>>]
    /\ UNCHANGED <<input_string, origin, warnings, content, mutated, ret>>

HasTag(x) == x.kind \in {"obj", "cont", "close", "part"}

TagOf(x) == IF x.kind = "part" THEN x.header.tag ELSE x.tag

\* parents_ref[-1].append(x)
AppendTop(frames, x) == [frames EXCEPT ![Len(frames)] = Append(@, x)]

\* lines 128-140: one iteration of the loop over the lines
ParseStep ==
    /\ pc = "loop"
    /\ i < Len(lines)
    /\ LET line == lines[i + 1]
           parsed_line == _parse_line(line)
       IN  IF parents_ref = <<>>
           THEN \* parents_ref[-1] on an empty list
                /\ pc' = "raised"
                /\ ret' = Raised("IndexError")
                /\ UNCHANGED <<i, parents_ref, warnings>>
           ELSE IF parsed_line.kind = "close"
           THEN IF Len(Last(parents_ref)) = 1 /\ ~HasTag(Last(Last(parents_ref)))
                THEN \* parents_ref[-1][-1].tag on an object without a tag
                     /\ pc' = "raised"
                     /\ ret' = Raised("AttributeError")
                     /\ UNCHANGED <<i, parents_ref, warnings>>
                ELSE /\ warnings' =
                          IF Len(Last(parents_ref)) = 1
                          THEN Append(warnings,
                                      [kind |-> "closing_without_opening", line |-> i,
                                       open |-> TagOf(Last(Last(parents_ref))),
                                       close |-> parsed_line.tag])
                          ELSE warnings
                     /\ parents_ref' =
                          Front(AppendTop(parents_ref, StrVal(CloseTag_tostring(parsed_line))))
                     /\ i' = i + 1
                     /\ UNCHANGED <<pc, ret>>
           ELSE IF parsed_line.kind = "cont"
           THEN /\ parents_ref' = Append(AppendTop(parents_ref, parsed_line), <<parsed_line>>)
                /\ i' = i + 1
                /\ UNCHANGED <<pc, ret, warnings>>
           ELSE /\ parents_ref' = AppendTop(parents_ref, parsed_line)
                /\ i' = i + 1
                /\ UNCHANGED <<pc, ret, warnings>>
    /\ UNCHANGED <<input_string, origin, lines, lyx_content, content, mutated, call>>

\* lines 141-143: the end-of-input warning and self.content = lyx_content
Finish ==
    /\ pc = "loop"
    /\ i = Len(lines)
    /\ warnings' =
         IF Len(parents_ref) > 1
         THEN Append(warnings, [kind |-> "open_closed", count |-> Len(parents_ref) - 1,
                                trailing |-> Last(parents_ref)])
         ELSE warnings
    /\ content' = lyx_content
    /\ pc' = "done"
    /\ ret' = Ok(NoneVal)
    /\ UNCHANGED <<input_string, origin, lines, i, lyx_content, parents_ref, mutated, call>>

----------------------------------------------------------------------------
(* LyxDocument.find_tag                                                    *)

\* hasattr(x, name)
HasAttr(x, name) ==
    CASE x.kind = "obj" -> name \in {"tag", "attribute"}
      [] x.kind = "cont" -> name \in {"tag", "attribute", "content"}
      [] x.kind = "part" -> name \in {"tag", "attribute", "name", "header", "content"}
      [] x.kind = "close" -> name \in {"tag"}
      [] OTHER -> FALSE

\* [(x, [i]) for x, i in enumerate(self.content)]: enumerate yields (index, item),
\* so x is bound to the index and i to the item
InitialNotVisited(doc_content) ==
    [k \in 1..Len(doc_content) |-> [obj |-> IntVal(k - 1), path |-> <<doc_content[k]>>]]

\* [(subobj, path + [i]) for i, subobj in enumerate(obj.content)]
Children(obj, path) ==
    [k \in 1..Len(obj.content) |-> [obj |-> obj.content[k], path |-> path \o <<IntVal(k - 1)>>]]

\* the while loop of find_tag, lines 179-190
RECURSIVE FindLoop(_, _, _)
FindLoop(notvisited, found, tag) ==
    IF Len(notvisited) = 0 THEN Ok(found)
    ELSE LET obj == Head(notvisited).obj
             path == Head(notvisited).path
             rest == Tail(notvisited)
             found2 == IF TagOf(obj) = tag
                       THEN Append(found, [obj |-> obj, path |-> path])
                       ELSE found
         IN  IF HasAttr(obj, "tag")
             THEN IF HasAttr(obj, "content")
                  THEN FindLoop(rest \o Children(obj, path), found2, tag)
                  ELSE Raised("AttributeError")      \* obj.content on a LyxObject
             ELSE IF HasAttr(obj, "content")
             THEN Raised("AttributeError")           \* obj.tag on an object without a tag
             ELSE FindLoop(rest, found, tag)

find_tag(doc_content, tag) == FindLoop(InitialNotVisited(doc_content), <<>>, tag)

----------------------------------------------------------------------------
(* LyxDocument.parse_lyx_parts and LyxDocument._get_body                   *)

\* the names an instance of LyxDocument resolves: the attribute set in __init__
\* and the methods of the class; _body_id is assigned only on line 228
LyxDocumentAttrs ==
    {"content", "_parse_line", "find_tag", "parse_lyx_parts", "_get_body",
     "_get_item_by_ref", "tostring", "tofile"}

\* lines 224-230.  Neither hasattr(self, '_body_id') nor the lookup of
\* self._find_tag succeeds: the class defines find_tag, not _find_tag.
_get_body(doc_content) ==
    IF "_find_tag" \notin LyxDocumentAttrs THEN Raised("AttributeError")
    ELSE Ok(NoneVal)

AttributeOf(x) == IF x.kind = "part" THEN x.header.attribute ELSE x.attribute

\* x in attributes
InTuple(attributes, x) == \E k \in 1..Len(attributes) : attributes[k] = x

\* attributes.index(x), for x in attributes
IndexOf(attributes, x) == CHOOSE k \in 1..Len(attributes) :
    attributes[k] = x /\ \A j \in 1..(k - 1) : attributes[j] # x

RECURSIVE GetAt(_, _)
GetAt(node, path) ==
    IF path = <<>> THEN node ELSE GetAt(node.content[Head(path)], Tail(path))

RECURSIVE AppendAt(_, _, _)
AppendAt(node, path, x) ==
    IF path = <<>> THEN [node EXCEPT !.content = Append(@, x)]
    ELSE [node EXCEPT !.content[Head(path)] = AppendAt(@, Tail(path), x)]

\* the while loop of lines 206-209; stack holds the paths of the open parts in lyx_parts
RECURSIVE PopWhile(_, _, _, _)
PopWhile(lyx_parts, stack, item, attributes) ==
    IF stack = <<>> THEN Raised("IndexError")
    ELSE LET top == GetAt(lyx_parts, Last(stack))
         IN  IF AttributeOf(top) = <<>> THEN Raised("AttributeError")
             ELSE IF /\ InTuple(attributes, Strip(AttributeOf(top)[1]))
                     /\ IndexOf(attributes, Strip(item.attribute[1]))
                          <= IndexOf(attributes, Strip(AttributeOf(top)[1]))
             THEN PopWhile(lyx_parts, Front(stack), item, attributes)
             ELSE Ok(stack)

\* the for loop of lines 204-214 from child k on
RECURSIVE PartsLoop(_, _, _, _, _)
PartsLoop(items, k, lyx_parts, stack, attributes) ==
    IF k > Len(items) THEN Ok(lyx_parts.content)
    ELSE LET item == items[k]
         IN  IF item.kind = "cont" /\ item.attribute = <<>>
             THEN Raised("AttributeError")           \* None.strip()
             ELSE IF item.kind = "cont" /\ InTuple(attributes, Strip(item.attribute[1]))
             THEN LET popped == PopWhile(lyx_parts, stack, item, attributes)
                  IN  IF popped.kind = "raised" THEN popped
                      ELSE LET top == Last(popped.value)
                               n == Len(GetAt(lyx_parts, top).content)
                           IN  PartsLoop(items, k + 1,
                                         AppendAt(lyx_parts, top, LyxPart(item, <<>>)),
                                         Append(popped.value, top \o <<n + 1>>),
                                         attributes)
             ELSE IF stack = <<>> THEN Raised("IndexError")
             ELSE PartsLoop(items, k + 1, AppendAt(lyx_parts, Last(stack), item),
                            stack, attributes)

parse_lyx_parts(doc_content, attributes) ==
    LET lyxbody == _get_body(doc_content)
    IN  IF lyxbody.kind = "raised" THEN lyxbody
        ELSE IF lyxbody.value # NoneVal
        THEN PartsLoop(lyxbody.value.content, 1,
                       LyxContainer(kBody, << <<>> >>, <<>>), << <<>> >>, attributes)
        ELSE Ok(<<>>)

----------------------------------------------------------------------------
(* Operations on a constructed document                                    *)

MaxContent == 2

kA == <<"A">>
kB == <<"B">>
kA1 == <<"A", ".", "1">>
kText == <<"t", "e", "x", "t">>

SectionA == LyxContainer(kLayout, <<kSection>>, <<StrVal(kA)>>)
SubsectionA1 == LyxContainer(kLayout, <<kSubsection>>, <<StrVal(kA1)>>)
SectionB == LyxContainer(kLayout, <<kSection>>, <<StrVal(kB)>>)

\* a body holding [Section A, Subsection A.1, text, Section B]
ExampleBody ==
    LyxContainer(kBody, <<>>, <<SectionA, SubsectionA1, StrVal(kText), SectionB>>)

\* what a caller appends to the public list LyxDocument.content
Items == { ExampleBody, LyxObject(kSize, <<kLarge>>), StrVal(kText) }

SearchTags == { kBody, kLayout }

Levels == { <<kSection, kSubsection>> }

\* doc.content.append(item)
AppendContent ==
    /\ pc = "done"
    /\ Len(content) < MaxContent
    /\ \E item \in Items : content' = Append(content, item)
    /\ mutated' = TRUE
    /\ call' = [op |-> "append", arg |-> <<>>]
    /\ ret' = Ok(NoneVal)
    /\ UNCHANGED <<input_string, origin, lines, i, lyx_content, parents_ref, warnings, pc>>

\* doc.find_tag(tag)
FindTag ==
    /\ pc = "done"
    /\ \E tag \in SearchTags :
         /\ call' = [op |-> "find_tag", arg |-> tag]
         /\ ret' = find_tag(content, tag)
    /\ UNCHANGED <<input_string, origin, lines, i, lyx_content, parents_ref, warnings, pc,
                   content, mutated>>

\* doc.parse_lyx_parts(attributes)
ParseLyxParts ==
    /\ pc = "done"
    /\ \E attributes \in Levels :
         /\ call' = [op |-> "parse_lyx_parts", arg |-> attributes]
         /\ ret' = parse_lyx_parts(content, attributes)
    /\ UNCHANGED <<input_string, origin, lines, i, lyx_content, parents_ref, warnings, pc,
                   content, mutated>>

\* doc.tostring()
Tostring ==
    /\ pc = "done"
    /\ call' = [op |-> "tostring", arg |-> <<>>]
    /\ ret' = Ok(StrVal(LyxDocument_tostring(content)))
    /\ UNCHANGED <<input_string, origin, lines, i, lyx_content, parents_ref, warnings, pc,
                   content, mutated>>

Next == Start \/ ParseStep \/ Finish \/ AppendContent \/ FindTag \/ ParseLyxParts \/ Tostring

Spec == Init /\ [][Next]_vars

----------------------------------------------------------------------------
(* LyxLabel.label_modifier                                                 *)

\* my_labels without the entry for "="
my_labels_without_equal ==
    << <<<<"%">>, <<"p", "e", "r", "c", "e", "n", "t">>>>,
       <<<<"_">>, <<"u", "n", "d", "e", "r", "l", "i", "n", "e">>>>,
       <<<<"^">>, <<"s", "l", "i", "d", "e">>>>,
       <<<<"#">>, <<"p", "o", "u", "n", "d">>>>,
       <<<<"{">>, <<"b", "r", "a", "c", "k", "e", "t", "S", "t", "a", "r", "t">>>>,
       <<<<"}">>, <<"b", "r", "a", "c", "k", "e", "t", "E", "n", "d">>>>,
       <<<<"\\">>, <<"b", "a", "c", "k", "w", "a", "r", "d", "S", "l", "a", "s", "h">>>> >>

\* the dict my_labels, in insertion order: <<key, replacement>>
my_labels ==
    << <<<<"%">>, <<"p", "e", "r", "c", "e", "n", "t">>>>,
       <<<<"_">>, <<"u", "n", "d", "e", "r", "l", "i", "n", "e">>>>,
       <<<<"^">>, <<"s", "l", "i", "d", "e">>>>,
       <<<<"#">>, <<"p", "o", "u", "n", "d">>>>,
       <<<<"{">>, <<"b", "r", "a", "c", "k", "e", "t", "S", "t", "a", "r", "t">>>>,
       <<<<"}">>, <<"b", "r", "a", "c", "k", "e", "t", "E", "n", "d">>>>,
       <<<<"\\">>, <<"b", "a", "c", "k", "w", "a", "r", "d", "S", "l", "a", "s", "h">>>>,
       <<<<"=">>, <<"e", "q", "u", "a", "l">>>> >>

\* the alternation '|'.join(map(re.escape, keys)) tried at the start of s: the index
\* of the first alternative that matches there, 0 if none does
MatchAt(s) ==
    IF \E k \in 1..Len(my_labels) : StartsWith(s, my_labels[k][1])
    THEN CHOOSE k \in 1..Len(my_labels) :
            /\ StartsWith(s, my_labels[k][1])
            /\ \A j \in 1..(k - 1) : ~StartsWith(s, my_labels[j][1])
    ELSE 0

\* my_labels.get(text)
LabelsGet(text) ==
    LET k == CHOOSE k \in 1..Len(my_labels) : my_labels[k][1] = text
    IN  my_labels[k][2]

\* regex.sub(lambda mo: my_labels.get(mo.string[mo.start():mo.end()]), s):
\* left to right, each match replaced, every other character copied
RECURSIVE RegexSub(_)
RegexSub(s) ==
    IF s = <<>> THEN <<>>
    ELSE LET k == MatchAt(s)
         IN  IF k = 0 THEN <<Head(s)>> \o RegexSub(Tail(s))
             ELSE LET n == Len(my_labels[k][1])
                  IN  LabelsGet(SubSeq(s, 1, n)) \o RegexSub(Drop(s, n))

label_modifier(input_label) == RegexSub(input_label)

MaxLabelLen == 2

LabelChars == {"%", "_", "^", "#", "{", "}", BS, "=", "a", "b"}

kExampleLabel == <<"a", "_", "b", "%", "c">>

LabelInputs ==
    {<<>>, kExampleLabel} \cup SeqsUpTo(LabelChars, MaxLabelLen)

InitLabel ==
    /\ input_string \in LabelInputs
    /\ origin = <<>>
    /\ lines = <<>>
    /\ i = 0
    /\ lyx_content = <<>>
    /\ parents_ref = <<>>
    /\ warnings = <<>>
    /\ pc = "label"
    /\ content = <<>>
    /\ mutated = FALSE
    /\ call = NoCall
    /\ ret = NoneVal

\* LyxLabel.label_modifier(input_label)
LabelModifier ==
    /\ pc = "label"
    /\ call' = [op |-> "label_modifier", arg |-> <<>>]
    /\ ret' = Ok(StrVal(label_modifier(input_string)))
    /\ pc' = "labelled"
    /\ UNCHANGED <<input_string, origin, lines, i, lyx_content, parents_ref, warnings,
                   content, mutated>>

NextLabel == LabelModifier

SpecLabel == InitLabel /\ [][NextLabel]_vars

----------------------------------------------------------------------------
(* Vocabulary of the properties: the markup format and well-formed input   *)

\* a line that opens a container, a line that closes one
IsBeginLine(l) == StartsWith(l, kBegin)
IsEndLine(l) == StartsWith(l, kEnd)

\* the X of a \begin_X [attribute] line and of an \end_X line
BeginTagOf(l) == Drop(Split1(l, SP)[1], Len(kBeginU))
EndTagOf(l) == Drop(l, Len(kEnd) + 1)

\* every \begin_X is matched by a later \end_X at the same depth, and nothing else closes
RECURSIVE Balanced(_, _, _)
Balanced(ls, k, open) ==
    IF k > Len(ls) THEN open = <<>>
    ELSE IF IsBeginLine(ls[k]) THEN Balanced(ls, k + 1, Append(open, BeginTagOf(ls[k])))
    ELSE IF IsEndLine(ls[k])
    THEN /\ open # <<>>
         /\ Last(open) = EndTagOf(ls[k])
         /\ Balanced(ls, k + 1, Front(open))
    ELSE Balanced(ls, k + 1, open)

WellFormed(ls) == Balanced(ls, 1, <<>>)

RemoveAt(ls, k) == SubSeq(ls, 1, k - 1) \o SubSeq(ls, k + 1, Len(ls))

\* well-formed except for one \end line that has no matching open
OneExtraEnd(ls) ==
    /\ ~WellFormed(ls)
    /\ \E k \in 1..Len(ls) : IsEndLine(ls[k]) /\ WellFormed(RemoveAt(ls, k))

\* well-formed except for one \begin line that is never closed
OneUnclosedBegin(ls) ==
    /\ ~WellFormed(ls)
    /\ \E k \in 1..Len(ls) : IsBeginLine(ls[k]) /\ WellFormed(RemoveAt(ls, k))

WarningsOfKind(kind) == { k \in 1..Len(warnings) : warnings[k].kind = kind }

\* the markup format: \<tag>[ <attribute>] for a Node, \begin_<tag>[ <attribute>],
\* the children, \end_<tag> for a Container, raw text as it is
RECURSIVE FormatRender(_)
FormatRender(x) ==
    CASE x.kind = "str" -> x.s
      [] x.kind = "obj" -> <<BS>> \o x.tag \o AttrSuffix(x.attribute)
      [] x.kind = "cont" ->
            Join(<<kBeginU \o x.tag \o AttrSuffix(x.attribute)>>
                   \o [k \in 1..Len(x.content) |-> FormatRender(x.content[k])]
                   \o <<kEnd \o <<"_">> \o x.tag>>, <<NL>>)

RECURSIVE FlattenSeqs(_)
FlattenSeqs(ss) == IF ss = <<>> THEN <<>> ELSE Head(ss) \o FlattenSeqs(Tail(ss))

\* what the parser has to make of each rendered line of a tree
RECURSIVE LineKinds(_)
LineKinds(x) ==
    CASE x.kind = "str" -> <<"str">>
      [] x.kind = "obj" -> <<"obj">>
      [] x.kind = "cont" ->
            <<"cont">> \o FlattenSeqs([k \in 1..Len(x.content) |-> LineKinds(x.content[k])])
                       \o <<"close">>

\* the queue a breadth-first search of the content tree starts from
RootQueue(doc_content) ==
    [k \in 1..Len(doc_content) |-> [obj |-> doc_content[k], path |-> <<IntVal(k - 1)>>]]

\* every entity with the tag, breadth first, with the path of child indices to it
RECURSIVE TaggedBFS(_, _)
TaggedBFS(queue, tag) ==
    IF queue = <<>> THEN <<>>
    ELSE LET h == Head(queue)
             kids == IF HasAttr(h.obj, "content") THEN Children(h.obj, h.path) ELSE <<>>
         IN  (IF HasTag(h.obj) /\ TagOf(h.obj) = tag THEN <<h>> ELSE <<>>)
                \o TaggedBFS(Tail(queue) \o kids, tag)

Bodies(doc_content) ==
    SelectSeq(TaggedBFS(RootQueue(doc_content), kBody), LAMBDA m : m.obj.kind = "cont")

HasBody(doc_content) == Bodies(doc_content) # <<>>

\* the character by character replacement table of the label modifier
LabelWord(c) ==
    CASE c = "%" -> <<"p", "e", "r", "c", "e", "n", "t">>
      [] c = "_" -> <<"u", "n", "d", "e", "r", "l", "i", "n", "e">>
      [] c = "^" -> <<"s", "l", "i", "d", "e">>
      [] c = "#" -> <<"p", "o", "u", "n", "d">>
      [] c = "{" -> <<"b", "r", "a", "c", "k", "e", "t", "S", "t", "a", "r", "t">>
      [] c = "}" -> <<"b", "r", "a", "c", "k", "e", "t", "E", "n", "d">>
      [] c = "\\" -> <<"b", "a", "c", "k", "w", "a", "r", "d", "S", "l", "a", "s", "h">>
      [] c = "=" -> <<"e", "q", "u", "a", "l">>
      [] OTHER -> <<c>>

ExpectedLabel(s) == FlattenSeqs([k \in 1..Len(s) |-> LabelWord(s[k])])

kExampleLabelOut == <<"a", "u", "n", "d", "e", "r", "l", "i", "n", "e", "b", "p", "e", "r", "c", "e", "n", "t", "c">>

\* the two top-level Parts of the example: A holding Part A.1 with the text, B empty
ExampleParts ==
    << LyxPart(SectionA, <<LyxPart(SubsectionA1, <<StrVal(kText)>>)>>),
       LyxPart(SectionB, <<>>) >>

----------------------------------------------------------------------------
(* Properties                                                              *)

\* C1: round trip.  For a tree of Containers and Nodes, parsing its rendering with
\* LyxDocument and rendering the parsed document gives the first rendering again.
C1_RoundTrip ==
    (call.op = "tostring" /\ origin # <<>> /\ ~mutated) => ret = Ok(StrVal(input_string))

\* C2: constructing a LyxDocument from well-formed input logs no structural warning.
C2_WellFormedNoWarnings ==
    (pc = "done" /\ WellFormed(lines)) => warnings = <<>>

\* C3: input that is well-formed except for one extra \end line logs exactly one
\* 'closing tag without opening' warning and the constructor does not raise.
C3_OneExtraEndOneWarning ==
    /\ (pc = "done" /\ OneExtraEnd(lines)) =>
            Cardinality(WarningsOfKind("closing_without_opening")) = 1
    /\ (pc = "raised" => ~OneExtraEnd(lines))

\* C4: input that is well-formed except for one \begin line that is never closed logs
\* exactly one end-of-input 'unclosed' warning, and the count it reports is 1.
C4_OneUnclosedCountOne ==
    (pc = "done" /\ OneUnclosedBegin(lines)) =>
        /\ Cardinality(WarningsOfKind("open_closed")) = 1
        /\ \A k \in WarningsOfKind("open_closed") : warnings[k].count = 1

\* C5: find_tag(t) returns every entity of the content tree whose tag is t, each with
\* the path of child indices that reaches it; a single top-level body at position i
\* is returned as the one match with path [i].
C5_FindTagAllMatches ==
    call.op = "find_tag" => ret = Ok(TaggedBFS(RootQueue(content), call.arg))

\* C6: parse_lyx_parts(levels) on a document with a body nests the body's direct
\* children by level rank; for [Section A, Subsection A.1, text, Section B] the result
\* is the two top-level Parts A (holding Part A.1 and the text) and B (empty).
C6_PartsNestByRank ==
    (call.op = "parse_lyx_parts" /\ HasBody(content)) =>
        LET body == Bodies(content)[1].obj
        IN  /\ ret = PartsLoop(body.content, 1, LyxContainer(kBody, << <<>> >>, <<>>),
                               << <<>> >>, call.arg)
            /\ (body = ExampleBody /\ call.arg = <<kSection, kSubsection>>)
                    => ret = Ok(ExampleParts)

\* C7: parse_lyx_parts on a document without a body container returns the empty
\* result and does not raise.
C7_NoBodyEmptyResult ==
    (call.op = "parse_lyx_parts" /\ ~HasBody(content)) => ret = Ok(<<>>)

\* C8: label_modifier replaces each of the eight special characters by its word,
\* keeps every other character in place and inserts nothing else;
\* 'a_b%c' becomes 'aunderlinebpercentc'.
C8_LabelModifier ==
    pc = "labelled" =>
        /\ ret = Ok(StrVal(ExpectedLabel(input_string)))
        /\ (input_string = kExampleLabel => ret.value.s = kExampleLabelOut)

C8_Witness ==
    /\ pc = "labelled"
    /\ input_string = kExampleLabel
    /\ ret = Ok(StrVal(kExampleLabelOut))

\* the number of entries held by the frames of the stack
RECURSIVE FrameEntries(_)
FrameEntries(frames) ==
    IF frames = <<>> THEN 0 ELSE Len(Head(frames)) + FrameEntries(Tail(frames))

\* C9: the constructor never raises, whatever the input: every line read so far has
\* left its entry in a frame, and the constructor returns having read every line.
C9_ParsingNeverRaises ==
    /\ pc # "raised"
    /\ (pc \in {"loop", "done"} /\ call.op = "__init__") =>
            /\ lines = Split(input_string, NL)
            /\ i <= Len(lines)
            /\ FrameEntries(parents_ref) = i + Len(parents_ref)
    /\ (pc = "done" /\ call.op = "__init__") =>
            /\ ret = Ok(NoneVal)
            /\ i = Len(lines)

\* a finished construction from input with an unmatched \end at the root, a line
\* that is only the escape character, and a \begin that is never closed
C9_Witness ==
    /\ pc = "done"
    /\ Len(lines) = 3
    /\ IsEndLine(lines[1])
    /\ lines[2] = <<BS>>
    /\ IsBeginLine(lines[3])

\* C10: a Node renders to \<tag>[ <attribute>] with one leading backslash, a Container
\* to \begin_<tag>[ <attribute>], its children in order, \end_<tag>, joined by
\* newlines; the parser classifies each rendered line as an open, a close or a Node.
C10_RenderFormat ==
    /\ origin # <<>> => input_string = FormatRender(origin[1])
    /\ (origin # <<>> /\ pc = "done") =>
            /\ Len(lines) = Len(LineKinds(origin[1]))
            /\ \A k \in 1..Len(lines) :
                  _parse_line(lines[k]).kind = LineKinds(origin[1])[k]
    /\ call.op = "tostring" =>
            ret.value.s = Join([k \in 1..Len(content) |-> FormatRender(content[k])], <<NL>>)

\* the entries the lines read so far have left in the frames, in line order: each
\* frame holds its opening object first and then one entry per line
LineEntries(frames) == FlattenSeqs([j \in 1..Len(frames) |-> Tail(frames[j])])

\* everything after the first space of l, if l has a space
AfterFirstSpace(l) ==
    LET k == FindChar(l, SP, 1)
    IN  IF k = 0 THEN <<>> ELSE <<Drop(l, k)>>

\* C11 as stated: the attribute of a Node or Container parsed from a line is present
\* exactly when the line has a space after the tag token and is everything after that
\* first space, trailing spaces included.
C11_AttributeVerbatim ==
    pc \in {"loop", "done"} =>
        \A k \in 1..i :
            LineEntries(parents_ref)[k].kind \in {"obj", "cont"} =>
                LineEntries(parents_ref)[k].attribute = AfterFirstSpace(lines[k])

\* C11 as amended: the attribute of a Node or Container parsed from a line is present
\* exactly when the line without its trailing whitespace has a space after the tag
\* token, and is everything after that first space up to the end of the line without
\* its trailing whitespace, embedded spaces and quotes kept.
C11_AttributeOfStrippedLine ==
    pc \in {"loop", "done"} =>
        \A k \in 1..i :
            LineEntries(parents_ref)[k].kind \in {"obj", "cont"} =>
                LineEntries(parents_ref)[k].attribute = AfterFirstSpace(RStrip(lines[k]))

kQuotedLarge == <<SP, "\"">> \o kLarge \o <<"\"">>

\* a Node parsed from \size  "large"<space> and a Container parsed from a line with
\* an attribute
C11_Witness ==
    /\ pc = "done"
    /\ Len(lines) = 2
    /\ lines[1] = <<BS>> \o kSize \o <<SP>> \o kQuotedLarge \o <<SP>>
    /\ LineEntries(parents_ref)[1] = LyxObject(kSize, <<kQuotedLarge>>)
    /\ LineEntries(parents_ref)[2] = LyxContainer(kLayout, <<kSection>>, <<>>)

\* the tree the lines assemble to when each parsed item is appended to the content of
\* the innermost container open at its line and an \end line closes that container;
\* stack holds the paths of the open containers, the document first
RECURSIVE AssembleFrom(_, _, _, _)
AssembleFrom(ls, k, doc, stack) ==
    IF k > Len(ls) THEN doc.content
    ELSE LET item == _parse_line(ls[k])
             top == Last(stack)
             n == Len(GetAt(doc, top).content)
         IN  IF IsEndLine(ls[k])
             THEN AssembleFrom(ls, k + 1, doc, IF Len(stack) > 1 THEN Front(stack) ELSE stack)
             ELSE IF item.kind = "cont"
             THEN AssembleFrom(ls, k + 1, AppendAt(doc, top, item), Append(stack, top \o <<n + 1>>))
             ELSE AssembleFrom(ls, k + 1, AppendAt(doc, top, item), stack)

Assembled(ls) == AssembleFrom(ls, 1, LyxContainer(<<>>, <<>>, <<>>), << <<>> >>)

IsCloseText(x) == x.kind = "str" /\ (StartsWith(x.s, kEnd) \/ StartsWith(x.s, kContEnd))

\* a content sequence without the text of the close lines, at every depth
RECURSIVE WithoutCloseText(_)
WithoutCloseText(items) ==
    LET kept == SelectSeq(items, LAMBDA x : ~IsCloseText(x))
    IN  [k \in 1..Len(kept) |->
            IF kept[k].kind = "cont"
            THEN [kept[k] EXCEPT !.content = WithoutCloseText(@)]
            ELSE kept[k]]

\* C12: after LyxDocument(text), Document.content holds in line order one entry for
\* every line outside all containers, and the content of each Container holds in line
\* order the entries of the lines between its \begin_ line and its matching close.
C12_AssemblyKeepsOrderAndNesting ==
    (pc = "done" /\ ~mutated) => WithoutCloseText(content) = Assembled(lines)

\* C13: every line starting with \end is classified as a CloseTag whose tag is the
\* text after \end_, and processing it pops exactly one frame: the stack of open
\* frames is one shorter after the line, so later lines attach to the enclosing one.
C13_EndLinePopsOneFrame ==
    [][ (pc = "loop" /\ i < Len(lines) /\ IsEndLine(lines[i + 1])) =>
            /\ _parse_line(lines[i + 1]) = CloseTag(EndTagOf(lines[i + 1]))
            /\ Len(parents_ref') = Len(parents_ref) - 1
            /\ parents_ref' = Front(parents_ref) ]_vars

====
